---- MODULE Spec2Model ----
(***************************************************************************)
(* A model of ek_geo/datastructs.py: Point, Coords and Bounds.             *)
(*                                                                         *)
(* Numbers.  lon/lat are Python floats.  A float is modelled as a binary   *)
(* floating-point number of Prec significant bits, held as an integer      *)
(* count of ticks of 2^-FracBits degree; every arithmetic operation rounds *)
(* its exact result to the nearest such number, ties to even, as IEEE-754  *)
(* does with 53 bits.  geopy's geodesic distance is a library call; it is  *)
(* taken as DegLatKm km per degree of latitude and DegLonKm km per degree  *)
(* of longitude (its values near latitude 37.8, where the module's own     *)
(* scenario of 143 points lies).                                           *)
(*                                                                         *)
(* Objects.  A Point is the record [lon, lat, aux] where aux is a          *)
(* reference into heap, the store of aux dicts: two Points with the same   *)
(* reference share one dict.                                               *)
(***************************************************************************)
EXTENDS Integers, Sequences, FiniteSets

VARIABLES coords, slice, heap, bounds, ret

vars == <<coords, slice, heap, bounds, ret>>

\* ------------------------------------------------------------ bounds
\* Longest point set built by append.
MaxLen == 2
\* Coordinates are whole degrees 0..MaxDeg.
MaxDeg == 1
\* Significant bits of a float of the model (53 in the program).
Prec == 6
\* A float of the model is a multiple of 2^-FracBits.
FracBits == 10
\* Requested grid spacings, in km: for down-sampling, and for grid generation.
Intervals == {18, 37, 120}
GridIntervals == {18, 37, 50, 60, 90, 120}

\* ------------------------------------------------------------ floats
Unit == 2^FracBits

Abs(x) == IF x < 0 THEN -x ELSE x

Sign(x) == IF x < 0 THEN -1 ELSE 1

\* floor(a / b) for b # 0, whatever the signs.
FloorQuot(a, b) == IF b > 0 THEN a \div b ELSE (-a) \div (-b)

\* The exponent of the quantum of a / d (a >= 0, d > 0): the least s with
\* a / d < 2^(Prec + s).
RECURSIVE QuantumExp(_, _, _)
QuantumExp(a, d, s) == IF a < d * 2^(Prec + s) THEN s ELSE QuantumExp(a, d, s + 1)

\* a / m (a >= 0, m > 0) rounded to the nearest integer, ties to even.
RoundHalfEven(a, m) ==
    LET k == a \div m
        r == a % m
    IN  IF 2 * r < m THEN k
        ELSE IF 2 * r > m THEN k + 1
        ELSE IF k % 2 = 0 THEN k ELSE k + 1

\* The float nearest to the rational n / d ticks (d > 0).
FRound(n, d) ==
    LET a == Abs(n)
        q == 2^QuantumExp(a, d, 0)
    IN  Sign(n) * q * RoundHalfEven(a, d * q)

\* float + float, float - float, float * float
FAdd(x, y) == FRound(x + y, 1)
FSub(x, y) == FRound(x - y, 1)
FMul(x, y) == FRound(x * y, Unit)

\* float / int (the int is converted exactly), n # 0
FDivInt(x, n) == FRound(x * Sign(n), Abs(n))

\* int / int, Python's true division, n # 0: a float
IntDiv(i, n) == FRound(i * Unit * Sign(n), Abs(n))

\* int(x // y) on floats, y # 0: Python computes the floor of the exact
\* quotient of the two floats (float_floor_div works from fmod).
FFloorDivInt(x, y) == FloorQuot(x, y)

\* A whole number of degrees as a float.
Deg(k) == k * Unit

Degrees == {Deg(k) : k \in 0..MaxDeg}

Min(x, y) == IF x < y THEN x ELSE y

Max(x, y) == IF x > y THEN x ELSE y

\* ------------------------------------------------------------ Point
\* Python's None.
None == [none |-> TRUE]

\* A Coords object other than the first: its field coords.
Coords(list) == [coords |-> list]

\* aux: dict = Field(default_factory=dict): a new, empty dict per Point.
EmptyAux == [k \in {} |-> 0]

\* Point.update_aux: self.aux.update(kwargs), for one keyword key=value, on
\* the dict that reference a names in heap h.
update_aux(h, a, key, value) ==
    [h EXCEPT ![a] = [k \in (DOMAIN h[a]) \cup {key} |->
                         IF k = key THEN value ELSE h[a][k]]]

\* A corner of a Bounds, or a Point whose aux is not looked at.
LonLat(lon, lat) == [lon |-> lon, lat |-> lat]

\* geopy.distance.distance between two points on one meridian or parallel,
\* in km ticks: the geodesic length, symmetric, zero iff the points agree.
DegLatKm == 111
DegLonKm == 88

\* ------------------------------------------------------------ Bounds
\* Bounds(lo=..., hi=...): the pydantic constructor stores the two corners
\* as given.
Bounds(lo, hi) == [lo |-> lo, hi |-> hi]

\* Bounds.from_points
from_points(ul, lr) ==
    Bounds(LonLat(Min(ul.lon, lr.lon), Min(ul.lat, lr.lat)),
           LonLat(Max(ul.lon, lr.lon), Max(ul.lat, lr.lat)))

\* Bounds.get_wh: <<width, height>>, each a distance in km ticks.
get_wh(b) ==
    LET height == DegLatKm * Abs(b.hi.lat - b.lo.lat)
        width  == DegLonKm * Abs(b.hi.lon - b.lo.lon)
    IN  <<width, height>>

\* int(d.km // interval.km) for a distance d and an interval of whole km.
KmCount(d, interval) == FloorQuot(d, interval * Unit)

\* Bounds.sample, line 134: <<wcnt, hcnt>>
GridCounts(b, interval) ==
    LET wh == get_wh(b)
    IN  <<KmCount(wh[1], interval), KmCount(wh[2], interval)>>

\* The point of row i, column j with the loop counters taken from 1.
GridPointFromOne(b, i, j, wcnt, hcnt) ==
    LET lat == FAdd(b.lo.lat, FMul(IntDiv(i + 1, hcnt), FSub(b.hi.lat, b.lo.lat)))
        lon == FAdd(b.lo.lon, FMul(IntDiv(j + 1, wcnt), FSub(b.hi.lon, b.lo.lon)))
    IN  LonLat(lon, lat)

\* Bounds.sample, lines 137 and 139: the point of row i, column j.
GridPoint(b, i, j, wcnt, hcnt) ==
    LET lat == FAdd(b.lo.lat, FMul(IntDiv(i, hcnt), FSub(b.hi.lat, b.lo.lat)))
        lon == FAdd(b.lo.lon, FMul(IntDiv(j, wcnt), FSub(b.hi.lon, b.lo.lon)))
    IN  LonLat(lon, lat)

\* Bounds.sample: the points in the order they are appended, rows outermost.
\* range(0) is empty, so a zero count gives the empty set and no division.
BoundsSample(b, interval) ==
    LET cnt  == GridCounts(b, interval)
        wcnt == cnt[1]
        hcnt == cnt[2]
    IN  [status |-> "ok",
         out |-> [k \in 1..(hcnt * wcnt) |->
                     GridPoint(b, (k - 1) \div wcnt, (k - 1) % wcnt, wcnt, hcnt)]]

\* ------------------------------------------------------------ Coords
\* get_bounds with lo and hi started at Point(lon=0, lat=0), not at coords[0].
get_bounds_from_origin(cs) ==
    IF cs = << >> THEN None
    ELSE LET F[k \in 0..Len(cs)] ==
                 IF k = 0
                 THEN Bounds(LonLat(0, 0), LonLat(0, 0))
                 ELSE Bounds(LonLat(Min(F[k-1].lo.lon, cs[k].lon),
                                    Min(F[k-1].lo.lat, cs[k].lat)),
                             LonLat(Max(F[k-1].hi.lon, cs[k].lon),
                                    Max(F[k-1].hi.lat, cs[k].lat)))
         IN  F[Len(cs)]

\* Coords.get_bounds
get_bounds(cs) ==
    IF cs = << >> THEN None
    ELSE LET F[k \in 0..Len(cs)] ==
                 IF k = 0
                 THEN Bounds(LonLat(cs[1].lon, cs[1].lat), LonLat(cs[1].lon, cs[1].lat))
                 ELSE Bounds(LonLat(Min(F[k-1].lo.lon, cs[k].lon),
                                    Min(F[k-1].lo.lat, cs[k].lat)),
                             LonLat(Max(F[k-1].hi.lon, cs[k].lon),
                                    Max(F[k-1].hi.lat, cs[k].lat)))
         IN  F[Len(cs)]

\* Coords.sample, line 59: <<w_len, h_len>>
SampleCounts(b, interval) ==
    LET wh == get_wh(b)
    IN  <<KmCount(wh[1], interval), KmCount(wh[2], interval)>>

\* Coords.sample, line 60: <<lat_iv, lon_iv>>, for counts that are not zero.
CellSize(b, w_len, h_len) ==
    <<FDivInt(FSub(b.hi.lat, b.lo.lat), h_len),
      FDivInt(FSub(b.hi.lon, b.lo.lon), w_len)>>

\* Coords.sample, lines 62-65: <<i, j>> of point p.
CellIndex(p, b, lat_iv, lon_iv) ==
    <<FFloorDivInt(FSub(p.lat, b.lo.lat), lat_iv),
      FFloorDivInt(FSub(p.lon, b.lo.lon), lon_iv)>>

\* Coords.sample, line 66
InGrid(ij, w_len, h_len) ==
    0 <= ij[1] /\ ij[1] < h_len /\ 0 <= ij[2] /\ ij[2] < w_len

Reverse(q) == [k \in 1..Len(q) |-> q[Len(q) + 1 - k]]

\* The loop of Coords.sample with each kept point put in front of the ones
\* kept before it.
KeepPointsInFront(cs, b, iv, w_len, h_len) ==
    Reverse(SelectSeq(cs, LAMBDA p :
                InGrid(CellIndex(p, b, iv[1], iv[2]), w_len, h_len)))

\* Coords.sample, lines 61-67: the points whose cell is in the grid, in the
\* order of cs.
KeepPoints(cs, b, iv, w_len, h_len) ==
    SelectSeq(cs, LAMBDA p : InGrid(CellIndex(p, b, iv[1], iv[2]), w_len, h_len))

\* Coords.sample.  Line 60 divides by the counts: a zero count raises
\* ZeroDivisionError before any point is looked at, and so does a zero cell
\* size at line 63 or 64 once there is a point.
CoordsSample(cs, b, interval) ==
    LET cnt   == SampleCounts(b, interval)
        w_len == cnt[1]
        h_len == cnt[2]
    IN  IF h_len = 0 \/ w_len = 0
        THEN [status |-> "ZeroDivisionError", out |-> << >>]
        ELSE LET iv == CellSize(b, w_len, h_len)
             IN  IF cs # << >> /\ (iv[1] = 0 \/ iv[2] = 0)
                 THEN [status |-> "ZeroDivisionError", out |-> << >>]
                 ELSE [status |-> "ok", out |-> KeepPoints(cs, b, iv, w_len, h_len)]

\* inject_idx with enumerate counting from 1.
RECURSIVE InjectFromOneUpTo(_, _, _)
InjectFromOneUpTo(h, cs, n) ==
    IF n = 0 THEN h
    ELSE update_aux(InjectFromOneUpTo(h, cs, n - 1), cs[n].aux, "idx", n)

inject_idx_from_one(h, cs) == InjectFromOneUpTo(h, cs, Len(cs))

\* Coords.inject_idx: point k (from 0) gets aux["idx"] = k, one point after
\* the other; h is the heap after points 1..n of cs.
RECURSIVE InjectUpTo(_, _, _)
InjectUpTo(h, cs, n) ==
    IF n = 0 THEN h
    ELSE update_aux(InjectUpTo(h, cs, n - 1), cs[n].aux, "idx", n - 1)

inject_idx(h, cs) == InjectUpTo(h, cs, Len(cs))

\* Coords.__getitem__ with the slice a:b (0 <= a <= b <= len): a new Coords
\* over a new list of the same Points; pydantic keeps each Point or copies
\* it shallowly, and either way the aux dict is the one of the original.
GetSlice(cs, a, b) == Coords(SubSeq(cs, a + 1, b))

\* ------------------------------------------------------------ state
Init ==
    /\ coords = << >>
    /\ slice = None
    /\ heap = << >>
    /\ bounds = None
    /\ ret = [op |-> "init"]

\* The Coords objects of the state.
SetOf(on) == IF on = "coords" THEN coords ELSE slice.coords

Targets == {"coords"} \cup (IF slice = None THEN {} ELSE {"slice"})

\* on.append(Point(lon=lon, lat=lat)): a new Point with its own aux dict.
\* At most MaxLen Points are constructed.
AppendNew(on, lon, lat) ==
    /\ on \in Targets
    /\ Len(SetOf(on)) < MaxLen
    /\ Len(heap) < MaxLen
    /\ heap' = Append(heap, EmptyAux)
    /\ LET p == [lon |-> lon, lat |-> lat, aux |-> Len(heap) + 1]
       IN  /\ coords' = IF on = "coords" THEN Append(coords, p) ELSE coords
           /\ slice' = IF on = "slice" THEN Coords(Append(slice.coords, p)) ELSE slice
    /\ ret' = [op |-> "append", on |-> on]
    /\ UNCHANGED bounds

\* on.append(from[k]): a Point that is already in a set is appended.
AppendSame(on, from, k) ==
    /\ on \in Targets /\ from \in Targets
    /\ Len(SetOf(on)) < MaxLen
    /\ k \in 1..Len(SetOf(from))
    /\ LET p == SetOf(from)[k]
       IN  /\ coords' = IF on = "coords" THEN Append(coords, p) ELSE coords
           /\ slice' = IF on = "slice" THEN Coords(Append(slice.coords, p)) ELSE slice
    /\ ret' = [op |-> "append", on |-> on]
    /\ UNCHANGED <<heap, bounds>>

\* slice = coords[a:b], taken once
Slice(a, b) ==
    /\ slice = None
    /\ 0 <= a /\ a <= b /\ b <= Len(coords)
    /\ slice' = GetSlice(coords, a, b)
    /\ ret' = [op |-> "getitem", on |-> "coords"]
    /\ UNCHANGED <<coords, heap, bounds>>

\* on.inject_idx()
InjectIdx(on) ==
    /\ on \in Targets
    /\ heap' = inject_idx(heap, SetOf(on))
    /\ ret' = [op |-> "inject_idx", on |-> on]
    /\ UNCHANGED <<coords, slice, bounds>>

\* on[k].update_aux(tag=v)
UpdateAux(on, k, v) ==
    /\ on \in Targets
    /\ k \in 1..Len(SetOf(on))
    /\ heap' = update_aux(heap, SetOf(on)[k].aux, "tag", v)
    /\ ret' = [op |-> "update_aux", on |-> on]
    /\ UNCHANGED <<coords, slice, bounds>>

\* bounds = Bounds(lo=Point(lon, lat), hi=Point(lon, lat)); the state holds
\* one Bounds object, made once.
NewBounds(lo, hi) ==
    /\ bounds = None
    /\ bounds' = Bounds(lo, hi)
    /\ ret' = [op |-> "Bounds"]
    /\ UNCHANGED <<coords, slice, heap>>

\* bounds = Bounds.from_points(ul, lr)
FromPoints(ul, lr) ==
    /\ bounds = None
    /\ bounds' = from_points(ul, lr)
    /\ ret' = [op |-> "from_points"]
    /\ UNCHANGED <<coords, slice, heap>>

\* bounds = coords.get_bounds()
GetBounds ==
    /\ bounds = None
    /\ bounds' = get_bounds(coords)
    /\ ret' = [op |-> "get_bounds"]
    /\ UNCHANGED <<coords, slice, heap>>

\* coords.sample(bounds, interval)
SampleCoords(interval) ==
    /\ bounds # None
    /\ ret' = [op |-> "Coords.sample", interval |-> interval,
               res |-> CoordsSample(coords, bounds, interval)]
    /\ UNCHANGED <<coords, slice, heap, bounds>>

\* bounds.sample(interval)
SampleBounds(interval) ==
    /\ bounds # None
    /\ ret' = [op |-> "Bounds.sample", interval |-> interval,
               res |-> BoundsSample(bounds, interval)]
    /\ UNCHANGED <<coords, slice, heap, bounds>>

Corners == {LonLat(lon, lat) : lon \in Degrees, lat \in Degrees}

\* Building a point set and a Bounds, and down-sampling the set.
Next ==
    \/ \E lon \in Degrees, lat \in Degrees : AppendNew("coords", lon, lat)
    \/ \E lo \in Corners, hi \in Corners : NewBounds(lo, hi)
    \/ \E ul \in Corners, lr \in Corners : FromPoints(ul, lr)
    \/ GetBounds
    \/ \E interval \in Intervals : SampleCoords(interval)

Spec == Init /\ [][Next]_vars

\* Making a Bounds and generating its grid.
NextGrid ==
    \/ \E lo \in Corners, hi \in Corners : NewBounds(lo, hi)
    \/ \E ul \in Corners, lr \in Corners : FromPoints(ul, lr)
    \/ \E interval \in GridIntervals : SampleBounds(interval)

SpecGrid == Init /\ [][NextGrid]_vars

\* Point sets that share Points and aux dicts; the n-th Point made lies at
\* latitude n - 1 (mod MaxDeg + 1).
NextAux ==
    \/ \E on \in {"coords", "slice"} :
           AppendNew(on, Deg(0), Deg(Len(heap) % (MaxDeg + 1)))
    \/ \E on \in {"coords", "slice"}, from \in {"coords", "slice"}, k \in 1..MaxLen :
           AppendSame(on, from, k)
    \/ \E a \in 0..MaxLen, b \in 0..MaxLen : Slice(a, b)
    \/ \E on \in {"coords", "slice"} : InjectIdx(on)
    \/ \E on \in {"coords", "slice"}, k \in 1..MaxLen : UpdateAux(on, k, 1)

SpecAux == Init /\ [][NextAux]_vars

\* ------------------------------------------------------------ claims
\* Coords.sample has returned a point set.
SampleReturned == ret.op = "Coords.sample" /\ ret.res.status = "ok"

\* Bounds.sample has returned a point set.
GridReturned == ret.op = "Bounds.sample" /\ ret.res.status = "ok"

\* The cell <<i, j>> that Coords.sample computes for p under the bounds of
\* the state and the given interval (counts not zero).
CellOf(p, interval) ==
    LET cnt == SampleCounts(bounds, interval)
        iv  == CellSize(bounds, cnt[1], cnt[2])
    IN  CellIndex(p, bounds, iv[1], iv[2])

\* lo is componentwise at most hi.
Normalized(b) == b.lo.lon <= b.hi.lon /\ b.lo.lat <= b.hi.lat

\* out is cs with some elements left out.
IsSubsequence(out, cs) ==
    \E f \in [1..Len(out) -> 1..Len(cs)] :
        /\ \A k \in 1..Len(out) : cs[f[k]] = out[k]
        /\ \A k \in 1..Len(out), m \in 1..Len(out) : k < m => f[k] < f[m]

\* C1: no two points of the set Coords.sample returns (against a Bounds that
\* keeps its invariant) have the same cell <<i, j>>, and a returned point is
\* the first input point of its cell.
C1_AtMostOnePerCell ==
    (SampleReturned /\ Normalized(bounds)) =>
        LET out == ret.res.out
        IN  /\ \A m \in 1..Len(out), n \in 1..Len(out) :
                   m # n => CellOf(out[m], ret.interval) # CellOf(out[n], ret.interval)
            /\ \A m \in 1..Len(out) :
                   \A k \in 1..Len(coords) :
                       CellOf(coords[k], ret.interval) = CellOf(out[m], ret.interval)
                           => \E n \in 1..k : coords[n] = out[m]

\* C2: when wcnt or hcnt is 0, Bounds.sample and Coords.sample both end in
\* DegenerateGridError.
C2_DegenerateGridError ==
    (/\ ret.op \in {"Coords.sample", "Bounds.sample"}
     /\ \E n \in 1..2 : SampleCounts(bounds, ret.interval)[n] = 0)
        => ret.res.status = "DegenerateGridError"

\* C4: every Bounds has lo.lon <= hi.lon and lo.lat <= hi.lat.
C4_BoundsNormalized == bounds # None => Normalized(bounds)

\* C5: get_bounds returns None for the empty set; otherwise lo is at most and
\* hi at least every point, componentwise, and each of the four coordinates
\* is attained by a point of the set.
C5_GetBoundsTight ==
    ret.op = "get_bounds" =>
        IF coords = << >> THEN bounds = None
        ELSE /\ bounds # None
             /\ \A k \in 1..Len(coords) :
                    /\ bounds.lo.lon <= coords[k].lon /\ coords[k].lon <= bounds.hi.lon
                    /\ bounds.lo.lat <= coords[k].lat /\ coords[k].lat <= bounds.hi.lat
             /\ \E k \in 1..Len(coords) : coords[k].lon = bounds.lo.lon
             /\ \E k \in 1..Len(coords) : coords[k].lat = bounds.lo.lat
             /\ \E k \in 1..Len(coords) : coords[k].lon = bounds.hi.lon
             /\ \E k \in 1..Len(coords) : coords[k].lat = bounds.hi.lat

\* get_bounds has returned the Bounds of two points that differ in both
\* coordinates, and of no single one of them.
C5_Witness ==
    /\ ret.op = "get_bounds"
    /\ Len(coords) = 2
    /\ bounds # None
    /\ bounds.lo.lon < bounds.hi.lon /\ bounds.lo.lat < bounds.hi.lat
    /\ \A k \in 1..2 : LonLat(coords[k].lon, coords[k].lat) \notin {bounds.lo, bounds.hi}

\* C6: the set Coords.sample returns is a subsequence of its input (the
\* same Points, in the input's order), and the call leaves the input set and
\* the aux dicts as they were.
C6_OrderPreserved ==
    /\ [](SampleReturned => IsSubsequence(ret.res.out, coords))
    /\ [][ret'.op = "Coords.sample" => coords' = coords /\ heap' = heap]_vars

\* Coords.sample has dropped the first of two points and kept the second.
C6_Witness ==
    /\ SampleReturned
    /\ Len(coords) = 2
    /\ ret.res.out = <<coords[2]>>

\* C7: with a Bounds that keeps its invariant and counts of at least 1, no
\* point Coords.sample returns has the longitude hi.lon or the latitude
\* hi.lat, and a point on lo.lon and lo.lat has cell <<0, 0>> and is returned.
C7_BoundaryExclusion ==
    (SampleReturned /\ Normalized(bounds)) =>
        /\ \A m \in 1..Len(ret.res.out) :
               /\ ret.res.out[m].lon # bounds.hi.lon
               /\ ret.res.out[m].lat # bounds.hi.lat
        /\ \A k \in 1..Len(coords) :
               (coords[k].lon = bounds.lo.lon /\ coords[k].lat = bounds.lo.lat)
                   => /\ CellOf(coords[k], ret.interval) = <<0, 0>>
                      /\ \E m \in 1..Len(ret.res.out) : ret.res.out[m] = coords[k]

\* The grid point of row i, column j as ret holds it.
GridOut(i, j, wcnt) == ret.res.out[i * wcnt + j + 1]

\* C3: the set Bounds.sample returns has wcnt * hcnt points, each with
\* lo.lon <= lon <= hi.lon and lo.lat <= lat <= hi.lat.
C3_GridCardinalityAndRange ==
    GridReturned =>
        LET cnt == GridCounts(bounds, ret.interval)
            out == ret.res.out
        IN  /\ Len(out) = cnt[1] * cnt[2]
            /\ \A k \in 1..Len(out) :
                   /\ bounds.lo.lon <= out[k].lon /\ out[k].lon <= bounds.hi.lon
                   /\ bounds.lo.lat <= out[k].lat /\ out[k].lat <= bounds.hi.lat

\* The spacing of the floats around x: the quantum of x.
Ulp(x) == 2^QuantumExp(Abs(x), 1, 0)

\* Each cell of the grid is wider than the spacing of the floats at the
\* coordinates of the bounds.
CellsResolved(b, iv) ==
    /\ Ulp(Max(Abs(b.lo.lat), Abs(b.hi.lat))) < Abs(iv[1])
    /\ Ulp(Max(Abs(b.lo.lon), Abs(b.hi.lon))) < Abs(iv[2])

\* C8 as claimed: the two samplers compute the same counts, and the point
\* Bounds.sample emits for row i, column j (of a Bounds that keeps its
\* invariant) has cell <<i, j>> in Coords.sample.
C8_RoundTripExact ==
    (GridReturned /\ Normalized(bounds)) =>
        LET cnt == GridCounts(bounds, ret.interval)
        IN  /\ cnt = SampleCounts(bounds, ret.interval)
            /\ \A i \in 0..(cnt[2] - 1), j \in 0..(cnt[1] - 1) :
                   CellOf(GridOut(i, j, cnt[1]), ret.interval) = <<i, j>>

\* C8: the two samplers compute the same counts; when each cell is wider
\* than the spacing of the floats at the bounds, the point Bounds.sample
\* emits for row i, column j has the cell <<i, j>> or, by the rounding of
\* i / hcnt, of the product and of the cell size, the cell one row or one
\* column before it; the point of row 0 has row 0, the point of column 0 has
\* column 0, and every grid point passes the range test of Coords.sample.
C8_RoundTripWithinOneCell ==
    GridReturned =>
        LET cnt == GridCounts(bounds, ret.interval)
        IN  /\ cnt = SampleCounts(bounds, ret.interval)
            /\ \A i \in 0..(cnt[2] - 1), j \in 0..(cnt[1] - 1) :
                   CellsResolved(bounds, CellSize(bounds, cnt[1], cnt[2])) =>
                       LET ij == CellOf(GridOut(i, j, cnt[1]), ret.interval)
                       IN  /\ ij[1] \in {i - 1, i} /\ ij[2] \in {j - 1, j}
                           /\ i = 0 => ij[1] = 0
                           /\ j = 0 => ij[2] = 0
                           /\ InGrid(ij, cnt[1], cnt[2])

\* Bounds.sample has returned a grid of resolved cells, one of whose points
\* Coords.sample puts in its own cell and another in the cell before.
C8_Witness ==
    /\ GridReturned
    /\ LET cnt == GridCounts(bounds, ret.interval)
       IN  /\ cnt[1] > 0 /\ cnt[2] > 0
           /\ CellsResolved(bounds, CellSize(bounds, cnt[1], cnt[2]))
           /\ \E i \in 1..(cnt[2] - 1), j \in 0..(cnt[1] - 1) :
                  CellOf(GridOut(i, j, cnt[1]), ret.interval) = <<i, j>>
           /\ \E i \in 1..(cnt[2] - 1), j \in 0..(cnt[1] - 1) :
                  CellOf(GridOut(i, j, cnt[1]), ret.interval) = <<i - 1, j>>

\* What a reader of the point set cs sees: each point's coordinates and the
\* content of its aux dict in heap h.
ViewOf(cs, h) ==
    [k \in 1..Len(cs) |-> [lon |-> cs[k].lon, lat |-> cs[k].lat, aux |-> h[cs[k].aux]]]

Mutators == {"append", "update_aux", "inject_idx"}

\* C9: once the slice is taken, an append, update_aux or inject_idx on the
\* slice leaves the original set as it was (length, order, coordinates and
\* every aux dict), and one on the original leaves the slice as it was.
C9_SliceSharesNothing ==
    [][(slice # None /\ ret'.op \in Mutators) =>
          IF ret'.on = "slice"
          THEN ViewOf(coords', heap') = ViewOf(coords, heap)
          ELSE ViewOf(slice'.coords, heap') = ViewOf(slice.coords, heap)]_vars

\* inject_idx has just returned, called on the set SetOf(ret.on).
Injected == ret.op = "inject_idx"

\* aux["idx"] of the point at position k (from 1) of cs.
IdxAt(cs, k) == heap[cs[k].aux]["idx"]

\* The last position (from 1) of cs whose point has the aux dict of cs[k].
LastShared(cs, k) ==
    CHOOSE m \in k..Len(cs) :
        /\ cs[m].aux = cs[k].aux
        /\ \A n \in (m + 1)..Len(cs) : cs[n].aux # cs[k].aux

\* C10 as claimed: after inject_idx the point at every position k (from 0)
\* has aux["idx"] = k.
C10_IdxIsPosition ==
    Injected =>
        \A k \in 1..Len(SetOf(ret.on)) :
            /\ "idx" \in DOMAIN heap[SetOf(ret.on)[k].aux]
            /\ IdxAt(SetOf(ret.on), k) = k - 1

\* C10: after inject_idx the point at every position k has aux["idx"] = the
\* last position at which a point with the same aux dict stands in the set
\* (k itself when the point stands in the set once), and the call leaves
\* both sets, so the length, the order and every lon/lat, as they were.
C10_IdxIsLastSharedPosition ==
    /\ [](Injected =>
            \A k \in 1..Len(SetOf(ret.on)) :
                /\ "idx" \in DOMAIN heap[SetOf(ret.on)[k].aux]
                /\ IdxAt(SetOf(ret.on), k) = LastShared(SetOf(ret.on), k) - 1)
    /\ [][ret'.op = "inject_idx" => coords' = coords /\ slice' = slice]_vars

\* inject_idx has returned on a set of two points of which the first has
\* idx 1: the same Point was appended twice.
C10_Witness ==
    /\ Injected
    /\ ret.on = "coords"
    /\ Len(coords) = 2
    /\ IdxAt(coords, 1) = 1
    /\ IdxAt(coords, 2) = 1

====
